---- MODULE Spec2Model ----
(***************************************************************************)
(* SainSmart 4-relay FTDI control (sainsmart_ftdi_relay_control.py).       *)
(*                                                                         *)
(* The model follows one run of main(): either the command line flow of    *)
(* main_cli (validate, enumerate, select, connect, execute, disconnect)    *)
(* or the event handlers of RelayControlFrame.  The FTDI driver is the     *)
(* environment: every driver call either succeeds or raises, and the byte  *)
(* latched by the board is the variable dev.                               *)
(***************************************************************************)
EXTENDS Integers, Sequences, FiniteSets, TLC

(***************************************************************************)
(* Program constants                                                       *)
(***************************************************************************)
NumRelays == 4
ByteBits == 8

SUCCESS == 0
GENERAL_ERROR == 1
NO_DEVICES_FOUND == 2
DEVICE_NOT_FOUND == 3
CONNECTION_FAILED == 4
COMMAND_EXECUTION_FAILED == 5
DEVICE_DISCONNECTED == 7
DEVICE_IN_USE == 9
INVALID_RELAY_NUMBER == 10
CONFLICTING_FLAGS == 11
FTDI_DRIVER_ERROR == 12

\* DEFAULT_SETTINGS['default_duration'] = 0.5 s, in tenths of a second
DefaultDuration == 5

(***************************************************************************)
(* Bounds of the explored inputs                                           *)
(***************************************************************************)
\* most relay numbers on a command line explored in every split over the flags
MaxRelayArgs == 2
\* largest --duration explored, in tenths of a second
MaxDuration == 1
\* most boards attached
MaxDevices == 2
\* prompts of select_device_interactively followed in one run
MaxPrompts == 2

Byte == 0..(2^ByteBits - 1)
\* relay numbers that argparse can deliver: the valid ones, one below, one above
RelayInputs == 0..(NumRelays + 1)
\* the not-running value of the exit code
Running == -1

(***************************************************************************)
(* Bit arithmetic on bytes, as Python's |, &, ~, ^ and << compute it       *)
(***************************************************************************)
Bit(n, i) == (n \div (2^i)) % 2

RECURSIVE FromBits(_, _)
FromBits(f, i) == IF i < 0 THEN 0 ELSE f[i] * (2^i) + FromBits(f, i - 1)

BitOr(a, b) ==
    FromBits([i \in 0..(ByteBits - 1) |->
                 IF Bit(a, i) = 1 \/ Bit(b, i) = 1 THEN 1 ELSE 0], ByteBits - 1)

\* a & ~b
BitAndNot(a, b) ==
    FromBits([i \in 0..(ByteBits - 1) |->
                 IF Bit(a, i) = 1 /\ Bit(b, i) = 0 THEN 1 ELSE 0], ByteBits - 1)

BitXor(a, b) ==
    FromBits([i \in 0..(ByteBits - 1) |->
                 IF Bit(a, i) # Bit(b, i) THEN 1 ELSE 0], ByteBits - 1)

\* 1 << (relay - 1)
RelayBit(relay) == 2^(relay - 1)

\* variant: relays_to_mask accumulating with ^= instead of |=
relays_to_mask_toggling(relay_list) ==
    LET RECURSIVE Go(_, _)
        Go(mask, i) == IF i > Len(relay_list) THEN mask
                       ELSE Go(BitXor(mask, RelayBit(relay_list[i])), i + 1)
    IN Go(0, 1)

\* mask = 0; for relay in relay_list: mask |= 1 << (relay - 1)
relays_to_mask(relay_list) ==
    LET RECURSIVE Go(_, _)
        Go(mask, i) == IF i > Len(relay_list) THEN mask
                       ELSE Go(BitOr(mask, RelayBit(relay_list[i])), i + 1)
    IN Go(0, 1)

(***************************************************************************)
(* Argument validation (pure)                                              *)
(***************************************************************************)
RelayFlags == {"state", "on", "off", "toggle", "momentary"}

Given(relay_list) == relay_list # <<>>

Elems(relay_list) == {relay_list[i] : i \in DOMAIN relay_list}

\* TRUE when the call returns, FALSE when it raises InvalidRelayNumberError
validate_relay_numbers(relay_list) ==
    \A i \in DOMAIN relay_list : 1 <= relay_list[i] /\ relay_list[i] <= NumRelays

\* the relay_ops loop: a relay of --off that is already a key of relay_ops
\* (put there by --on, or by an earlier entry of --off itself)
relay_ops_conflict(on, off) ==
    \E i \in DOMAIN off :
        \/ off[i] \in Elems(on)
        \/ \E j \in 1..(i - 1) : off[j] = off[i]

\* variant: validate_arguments without the --state / on-off-toggle exclusion
validate_arguments_without_state_check(a) ==
    IF \E f \in RelayFlags : ~validate_relay_numbers(a[f])
    THEN "InvalidRelayNumber"
    ELSE IF relay_ops_conflict(a.on, a.off)
    THEN "ConflictingFlags"
    ELSE IF a.duration # <<>> /\ ~Given(a.momentary)
    THEN "ConflictingFlags"
    ELSE "ok"

\* variant: validate_arguments testing the flag conflicts before the relay range
validate_arguments_conflicts_first(a) ==
    IF Given(a.state) /\ (Given(a.on) \/ Given(a.off) \/ Given(a.toggle))
    THEN "ConflictingFlags"
    ELSE IF relay_ops_conflict(a.on, a.off)
    THEN "ConflictingFlags"
    ELSE IF a.duration # <<>> /\ ~Given(a.momentary)
    THEN "ConflictingFlags"
    ELSE IF \E f \in RelayFlags : ~validate_relay_numbers(a[f])
    THEN "InvalidRelayNumber"
    ELSE "ok"

\* variant: validate_arguments also rejecting --momentary without --duration
validate_arguments_pairing_both_ways(a) ==
    IF \E f \in RelayFlags : ~validate_relay_numbers(a[f])
    THEN "InvalidRelayNumber"
    ELSE IF Given(a.state) /\ (Given(a.on) \/ Given(a.off) \/ Given(a.toggle))
    THEN "ConflictingFlags"
    ELSE IF relay_ops_conflict(a.on, a.off)
    THEN "ConflictingFlags"
    ELSE IF (a.duration # <<>>) # Given(a.momentary)
    THEN "ConflictingFlags"
    ELSE "ok"

\* "ok" when validate_arguments returns, else the exception it raises
validate_arguments(a) ==
    IF \E f \in RelayFlags : ~validate_relay_numbers(a[f])
    THEN "InvalidRelayNumber"
    ELSE IF Given(a.state) /\ (Given(a.on) \/ Given(a.off) \/ Given(a.toggle))
    THEN "ConflictingFlags"
    ELSE IF relay_ops_conflict(a.on, a.off)
    THEN "ConflictingFlags"
    ELSE IF a.duration # <<>> /\ ~Given(a.momentary)
    THEN "ConflictingFlags"
    ELSE "ok"

\* exit_code of the exception classes
ExitCodeOf(exc) ==
    CASE exc = "InvalidRelayNumber"  -> INVALID_RELAY_NUMBER
      [] exc = "ConflictingFlags"    -> CONFLICTING_FLAGS
      [] exc = "DeviceNotFound"      -> DEVICE_NOT_FOUND
      [] exc = "DeviceInUse"         -> DEVICE_IN_USE
      [] exc = "ConnectionFailed"    -> CONNECTION_FAILED
      [] exc = "DeviceDisconnected"  -> DEVICE_DISCONNECTED
      [] exc = "CommandFailed"       -> COMMAND_EXECUTION_FAILED
      [] exc = "NoDevicesFound"      -> NO_DEVICES_FOUND
      [] OTHER                       -> GENERAL_ERROR

(***************************************************************************)
(* Driver faults and the exceptions the wrappers raise for them            *)
(***************************************************************************)
\* handle.getBitMode(): returns, or raises
ReadOutcomes == {"ok", "FAULT"}
\* handle.write(): returns, raises DeviceError("... device not found ..."),
\* raises another DeviceError, or raises another exception
WriteOutcomes == {"ok", "DEVICE_NOT_FOUND", "IO_ERROR", "EXCEPTION"}
\* ftd.openEx / setBaudRate / setBitMode
ConnectFaults == {"DEVICE_NOT_FOUND", "ACCESS_DENIED", "IO_ERROR", "EXCEPTION"}

\* variant: get_relay_state reporting a failed read as a failed command
get_relay_state_raises_command_failed(outcome) == "CommandFailed"

\* the except clause of get_relay_state: every exception of the read
\* becomes a DeviceDisconnectedError
get_relay_state_raises(outcome) == "DeviceDisconnected"

\* variant: set_relay_state without the "device not found" test
set_relay_state_raises_always_failed(outcome) == "CommandFailed"

\* the except clauses of set_relay_state
set_relay_state_raises(outcome) ==
    IF outcome = "DEVICE_NOT_FOUND" THEN "DeviceDisconnected" ELSE "CommandFailed"

\* the except clauses of connect_device
connect_device_raises(fault) ==
    CASE fault = "DEVICE_NOT_FOUND" -> "DeviceNotFound"
      [] fault = "ACCESS_DENIED"    -> "DeviceInUse"
      [] OTHER                      -> "ConnectionFailed"

(***************************************************************************)
(* State                                                                   *)
(***************************************************************************)
VARIABLES
    mode,          \* "cli" or "gui": the branch main() takes
    args,          \* the parsed command line (CLI)
    attached,      \* serials of the boards the driver enumerates
    enumMayFail,   \* whether ftd.createDeviceInfoList() can raise in this run
    dev,           \* the byte latched on the board's pins
    drvOpen,       \* number of driver handles currently open
    handle,        \* the program's handle: "None" or "h"
    pc,            \* position of main_cli
    devices,       \* result of list_devices()
    device,        \* the selected serial
    cur,           \* current_state of execute_relay_commands
    pulseCur,      \* current_state of pulse_relays
    duration,      \* duration of execute_relay_commands, as <<d>>
    exitCode,      \* the process's exit code, Running while it runs
    log,           \* the driver calls made so far, in order
    is_connected,  \* RelayControlFrame.is_connected
    relay_states,  \* RelayControlFrame.relay_states
    ui             \* what the window shows: status text, enabled buttons

vars == <<mode, args, attached, enumMayFail, dev, drvOpen, handle, pc, devices, device, cur,
          pulseCur, duration, exitCode, log, is_connected, relay_states, ui>>

guiVars == <<is_connected, relay_states, ui>>
cliVars == <<pc, device, cur, pulseCur, duration, exitCode>>
envVars == <<mode, args, attached, enumMayFail>>

\* one driver call: op is the call, by the place it is made from, relay the
\* relay number of a GUI relay button (else 0), val the byte written or read,
\* res its outcome
Ev(op, by, val, res) == [op |-> op, by |-> by, relay |-> 0, val |-> val, res |-> res]
\* the same, made by the GUI handler of relay relay_num
EvR(op, by, relay_num, val, res) ==
    [op |-> op, by |-> by, relay |-> relay_num, val |-> val, res |-> res]

\* how ftd.createDeviceInfoList() can end in this run
EnumOutcomes == IF enumMayFail THEN {"ok", "FAULT"} ELSE {"ok"}

(***************************************************************************)
(* Inputs                                                                  *)
(***************************************************************************)
Durations == {<<>>} \cup {<<d>> : d \in (-1)..MaxDuration}

\* serial number of the i-th board
Serial(i) == ToString(i)
\* what the driver may enumerate: no board, one board, ...
AttachedChoices == {[i \in 1..n |-> Serial(i)] : n \in 0..MaxDevices}

\* bytes the board may hold when a run starts with several relay numbers on
\* the command line, or with no or several boards attached; the other runs
\* are explored from every byte
InitBytes == {6, 165}

\* the window as init_ui and disconnect() leave it
UiDisconnected == [status_text |-> "Disconnected", connect_btn |-> "Connect",
                   controls_enabled |-> FALSE, refresh_enabled |-> TRUE]
\* the window as a successful connect() leaves it
UiConnected == [status_text |-> "Connected", connect_btn |-> "Disconnect",
                controls_enabled |-> TRUE, refresh_enabled |-> FALSE]

NoArgs == [list_devices |-> FALSE, device_index |-> <<>>, device_serial |-> "",
           state |-> <<>>, on |-> <<>>, off |-> <<>>, toggle |-> <<>>,
           momentary |-> <<>>, duration |-> <<>>]

CliStart ==
    /\ mode = "cli"
    /\ drvOpen = 0
    /\ handle = "None"
    /\ pc = "start"
    /\ devices = <<>>
    /\ device = ""
    /\ cur = 0
    /\ pulseCur = 0
    /\ duration = <<>>
    /\ exitCode = Running
    /\ log = <<>>
    /\ is_connected = FALSE
    /\ relay_states = [i \in 0..(NumRelays - 1) |-> FALSE]
    /\ ui = UiDisconnected

\* relay lists of length n, as argparse delivers them (None is <<>>)
ListsOfLen(n) == [1..n -> RelayInputs]

\* command lines that vary the relay commands, with one board attached
InitCommands ==
    /\ CliStart
    /\ attached = <<Serial(1)>>
    /\ enumMayFail = FALSE
    /\ \E ns \in 0..MaxRelayArgs, no \in 0..MaxRelayArgs, nf \in 0..MaxRelayArgs,
          nt \in 0..MaxRelayArgs, nm \in 0..MaxRelayArgs :
         /\ ns + no + nf + nt + nm <= MaxRelayArgs
         /\ \E s \in ListsOfLen(ns), o \in ListsOfLen(no), f \in ListsOfLen(nf),
               t \in ListsOfLen(nt), m \in ListsOfLen(nm),
               d \in (IF nm > 0 THEN Durations ELSE {<<>>, <<0>>}) :
              args = [NoArgs EXCEPT !.state = s, !.on = o, !.off = f,
                         !.toggle = t, !.momentary = m, !.duration = d]
         /\ dev \in (IF ns + no + nf + nt + nm <= 1 THEN Byte ELSE InitBytes)

\* command lines that vary the device selection and --list-devices,
\* with any number of boards attached
InitSelection ==
    /\ CliStart
    /\ attached \in AttachedChoices
    /\ enumMayFail = TRUE
    /\ dev = 165
    /\ \E l \in BOOLEAN,
          ser \in {""} \cup {Serial(i) : i \in 1..(MaxDevices + 1)},
          idx \in {<<>>} \cup {<<i>> : i \in 0..MaxDevices},
          s \in {<<>>, <<2>>}, o \in {<<>>, <<1>>, <<5>>}, f \in {<<>>, <<1>>} :
         args = [NoArgs EXCEPT !.list_devices = l, !.device_serial = ser,
                    !.device_index = idx, !.state = s, !.on = o, !.off = f]

\* command lines giving one relay number to each of --on, --off and --toggle,
\* the whole fold of execute_relay_commands, without or with a pulse
InitFolds ==
    /\ CliStart
    /\ attached = <<Serial(1)>>
    /\ enumMayFail = FALSE
    /\ \E o \in ListsOfLen(1), f \in ListsOfLen(1), t \in ListsOfLen(1),
          m \in ListsOfLen(0) \cup ListsOfLen(1) :
         \E d \in (IF m # <<>> THEN Durations ELSE {<<>>}) :
            args = [NoArgs EXCEPT !.on = o, !.off = f, !.toggle = t,
                       !.momentary = m, !.duration = d]
    /\ dev \in InitBytes

\* command lines giving one relay flag a list longer than MaxRelayArgs
InitLists ==
    /\ CliStart
    /\ attached = <<Serial(1)>>
    /\ enumMayFail = FALSE
    /\ \E l \in ListsOfLen(MaxRelayArgs + 1) :
         \/ args = [NoArgs EXCEPT !.state = l]
         \/ args = [NoArgs EXCEPT !.on = l]
         \/ args = [NoArgs EXCEPT !.off = l]
         \/ args = [NoArgs EXCEPT !.toggle = l]
         \/ \E d \in Durations :
               args = [NoArgs EXCEPT !.momentary = l, !.duration = d]
    /\ dev \in InitBytes

InitCli == InitCommands \/ InitFolds \/ InitLists \/ InitSelection

\* RelayControlFrame.__init__: no handle, not connected, all relays shown off,
\* the device list filled by the first refresh_devices()
InitGui ==
    /\ mode = "gui"
    /\ args = NoArgs
    /\ attached \in AttachedChoices
    /\ enumMayFail = TRUE
    /\ dev \in (IF Len(attached) = 1 THEN Byte ELSE InitBytes)
    /\ drvOpen = 0
    /\ handle = "None"
    /\ pc = "gui"
    /\ \E o \in EnumOutcomes :
         /\ devices = (IF o = "ok" THEN attached ELSE <<>>)
         /\ log = <<Ev("enumerate", "list_devices", 0, o)>>
    /\ device = ""
    /\ cur = 0
    /\ pulseCur = 0
    /\ duration = <<>>
    /\ exitCode = Running
    /\ is_connected = FALSE
    /\ relay_states = [i \in 0..(NumRelays - 1) |-> FALSE]
    /\ ui = UiDisconnected

Init == InitCli \/ InitGui

(***************************************************************************)
(* main_cli                                                                *)
(***************************************************************************)
\* sys.exit(code) outside the inner try: nothing to close
Exit(code, lg) ==
    /\ pc' = "exited"
    /\ exitCode' = code
    /\ log' = lg

\* sys.exit(code) or an exception inside the inner try of main_cli:
\* the finally clause runs disconnect_device(handle) first
ExitClosing(code, lg) ==
    /\ pc' = "exited"
    /\ exitCode' = code
    /\ log' = Append(lg, Ev("close", "disconnect_device", 0, "ok"))
    /\ drvOpen' = drvOpen - 1

\* list_devices(): the driver's list; NoDevicesFoundError and driver errors
\* are raised inside its own try and end in "return []"
list_devices(outcome) == IF outcome = "ok" THEN attached ELSE <<>>

\* main_cli with --list-devices
CliListDevices ==
    /\ mode = "cli" /\ pc = "start"
    /\ args.list_devices
    /\ \E o \in EnumOutcomes :
         /\ devices' = list_devices(o)
         /\ Exit(SUCCESS, Append(log, Ev("enumerate", "list_devices", 0, o)))
    /\ UNCHANGED <<envVars, dev, drvOpen, handle, device, cur, pulseCur, duration, guiVars>>

\* main_cli: validate_arguments(args)
CliValidate ==
    /\ mode = "cli" /\ pc = "start"
    /\ ~args.list_devices
    /\ LET v == validate_arguments(args) IN
         IF v = "ok"
         THEN pc' = "enumerate" /\ UNCHANGED <<exitCode, log>>
         ELSE Exit(ExitCodeOf(v), log)
    /\ UNCHANGED <<envVars, dev, drvOpen, handle, devices, device, cur, pulseCur,
                   duration, guiVars>>

\* main_cli: devices = list_devices()
CliEnumerate ==
    /\ mode = "cli" /\ pc = "enumerate"
    /\ \E o \in EnumOutcomes :
         /\ devices' = list_devices(o)
         /\ log' = Append(log, Ev("enumerate", "list_devices", 0, o))
    /\ pc' = "select"
    /\ UNCHANGED <<envVars, dev, drvOpen, handle, device, cur, pulseCur, duration,
                   exitCode, guiVars>>

\* select_device, up to the interactive prompt
CliSelect ==
    /\ mode = "cli" /\ pc = "select"
    /\ IF args.device_serial # ""
       THEN IF \E i \in DOMAIN devices : devices[i] = args.device_serial
            THEN device' = args.device_serial /\ pc' = "connect"
                 /\ UNCHANGED <<exitCode, log>>
            ELSE Exit(DEVICE_NOT_FOUND, log) /\ UNCHANGED device
       ELSE IF args.device_index # <<>>
       THEN IF 0 <= args.device_index[1] /\ args.device_index[1] < Len(devices)
            THEN device' = devices[args.device_index[1] + 1] /\ pc' = "connect"
                 /\ UNCHANGED <<exitCode, log>>
            ELSE Exit(DEVICE_NOT_FOUND, log) /\ UNCHANGED device
       ELSE IF Len(devices) = 1
       THEN device' = devices[1] /\ pc' = "connect" /\ UNCHANGED <<exitCode, log>>
       ELSE pc' = "prompt" /\ UNCHANGED <<device, exitCode, log>>
    /\ UNCHANGED <<envVars, dev, drvOpen, handle, devices, cur, pulseCur, duration,
                   guiVars>>

\* what input() gives one pass of the loop: 'X', end of input, Ctrl-C,
\* text that is not a number, or a number
PromptInputs == {"X", "EOF", "INTERRUPT", "text", "number"}

\* variant: the input loop treating end of input like invalid text
select_device_interactively_retrying_eof(kind, idx, devs) ==
    IF kind \in {"X", "INTERRUPT"} THEN "None"
    ELSE IF kind = "number" /\ 0 <= idx /\ idx < Len(devs) THEN "device"
    ELSE "again"

\* one pass of the loop of select_device_interactively: it returns None, it
\* returns devices[idx], or it prints an error and prompts again
select_device_interactively(kind, idx, devs) ==
    IF kind \in {"X", "EOF", "INTERRUPT"} THEN "None"
    ELSE IF kind = "number" /\ 0 <= idx /\ idx < Len(devs) THEN "device"
    ELSE "again"

\* the input() calls made so far
Inputs == SelectSeq(log, LAMBDA e : e.op = "input")

\* select_device_interactively: one pass of the input loop; when it
\* returns None, select_device calls sys.exit(SUCCESS)
CliPrompt ==
    /\ mode = "cli" /\ pc = "prompt"
    /\ Len(Inputs) < MaxPrompts
    /\ \E kind \in PromptInputs :
       \E idx \in (IF kind = "number" THEN 0..Len(devices) ELSE {0}) :
         LET r == select_device_interactively(kind, idx, devices)
             lg == Append(log, Ev("input", "select_device_interactively", idx, kind))
         IN  CASE r = "None"   -> Exit(SUCCESS, lg) /\ UNCHANGED device
               [] r = "device" -> /\ device' = devices[idx + 1]
                                  /\ pc' = "connect"
                                  /\ log' = lg
                                  /\ UNCHANGED exitCode
               [] OTHER        -> log' = lg /\ UNCHANGED <<device, pc, exitCode>>
    /\ UNCHANGED <<envVars, dev, drvOpen, handle, devices, cur, pulseCur, duration,
                   guiVars>>

\* connect_device(device['serial']) as main_cli calls it
CliConnect ==
    /\ mode = "cli" /\ pc = "connect"
    /\ \/ \* openEx, setBaudRate and setBitMode succeed
          /\ drvOpen' = drvOpen + 1
          /\ handle' = "h"
          /\ pc' = "exec"
          /\ log' = Append(log, Ev("open", "connect_device", 0, "ok"))
          /\ UNCHANGED exitCode
       \/ \* openEx raises
          \E f \in ConnectFaults :
            /\ Exit(ExitCodeOf(connect_device_raises(f)),
                    Append(log, Ev("open", "connect_device", 0, f)))
            /\ UNCHANGED <<drvOpen, handle>>
       \/ \* openEx succeeds, setBaudRate or setBitMode raises: the local
          \* handle of connect_device is dropped without close()
          \E f \in ConnectFaults :
            /\ drvOpen' = drvOpen + 1
            /\ Exit(ExitCodeOf(connect_device_raises(f)),
                    log \o <<Ev("open", "connect_device", 0, "ok"),
                             Ev("config", "connect_device", 0, f)>>)
            /\ UNCHANGED handle
    /\ UNCHANGED <<envVars, dev, devices, device, cur, pulseCur, duration, guiVars>>

(***************************************************************************)
(* execute_relay_commands and pulse_relays, one driver call per step       *)
(***************************************************************************)
\* variant: execute_relay_commands without its --momentary part
AfterCommands_skipping_pulse == "finish"

\* what follows the --state / --on / --off / --toggle part
AfterCommands == IF Given(args.momentary) THEN "pulse_read" ELSE "finish"

\* variant: the fold applying --toggle before --on and --off
fold_toggle_first(a, current_state) ==
    LET t == IF Given(a.toggle) THEN BitXor(current_state, relays_to_mask(a.toggle))
                                ELSE current_state
        o == IF Given(a.on) THEN BitOr(t, relays_to_mask(a.on)) ELSE t
    IN  IF Given(a.off) THEN BitAndNot(o, relays_to_mask(a.off)) ELSE o

\* variant: the fold keeping only the four relay bits
fold_clearing_reserved(a, current_state) ==
    LET o == IF Given(a.on) THEN BitOr(current_state, relays_to_mask(a.on))
                            ELSE current_state
        f == IF Given(a.off) THEN BitAndNot(o, relays_to_mask(a.off)) ELSE o
        t == IF Given(a.toggle) THEN BitXor(f, relays_to_mask(a.toggle)) ELSE f
    IN  t % (2^NumRelays)

\* current_state |= on; current_state &= ~off; current_state ^= toggle
fold(a, current_state) ==
    LET o == IF Given(a.on) THEN BitOr(current_state, relays_to_mask(a.on))
                            ELSE current_state
        f == IF Given(a.off) THEN BitAndNot(o, relays_to_mask(a.off)) ELSE o
    IN  IF Given(a.toggle) THEN BitXor(f, relays_to_mask(a.toggle)) ELSE f

\* variant: get_relay_state returning a stale byte instead of raising
CliRead_ignoring_faults(by, nxt) ==
    \E o \in ReadOutcomes :
        /\ pc' = nxt
        /\ log' = Append(log, Ev("read", by, IF o = "ok" THEN dev ELSE 0, o))
        /\ UNCHANGED <<exitCode, drvOpen>>

\* get_relay_state(handle) inside main_cli's inner try
\* a failed read raises DeviceDisconnectedError
CliRead(by, nxt) ==
    \E o \in ReadOutcomes :
        LET lg == Append(log, Ev("read", by, IF o = "ok" THEN dev ELSE 0, o)) IN
        IF o = "ok"
        THEN pc' = nxt /\ log' = lg /\ UNCHANGED <<exitCode, drvOpen>>
        ELSE ExitClosing(ExitCodeOf(get_relay_state_raises(o)), lg)

\* variant: set_relay_state swallowing the driver fault
CliWrite_ignoring_faults(by, relay_mask, nxt) ==
    \E o \in WriteOutcomes :
        /\ dev' = (IF o = "ok" THEN relay_mask ELSE dev)
        /\ pc' = nxt
        /\ log' = Append(log, Ev("write", by, relay_mask, o))
        /\ UNCHANGED <<exitCode, drvOpen>>

\* set_relay_state(handle, relay_mask) inside main_cli's inner try
CliWrite(by, relay_mask, nxt) ==
    \E o \in WriteOutcomes :
        LET lg == Append(log, Ev("write", by, relay_mask, o)) IN
        IF o = "ok"
        THEN dev' = relay_mask /\ pc' = nxt /\ log' = lg
             /\ UNCHANGED <<exitCode, drvOpen>>
        ELSE dev' = dev /\ ExitClosing(ExitCodeOf(set_relay_state_raises(o)), lg)

\* variant: --state keeping the upper four bits of the board
state_mask_keeping_reserved(relay_list, current) ==
    BitOr(relays_to_mask(relay_list), current - (current % (2^NumRelays)))

\* mask = relays_to_mask(args.state)
state_mask(relay_list, current) == relays_to_mask(relay_list)

\* execute_relay_commands: the --state branch
ExecState ==
    /\ mode = "cli" /\ pc = "exec"
    /\ Given(args.state)
    /\ duration' = IF args.duration # <<>> THEN args.duration ELSE <<DefaultDuration>>
    /\ CliWrite("state", state_mask(args.state, dev), AfterCommands)
    /\ UNCHANGED <<envVars, handle, devices, device, cur, pulseCur, guiVars>>

\* execute_relay_commands: the else branch up to its write
ExecRead ==
    /\ mode = "cli" /\ pc = "exec"
    /\ ~Given(args.state)
    /\ duration' = IF args.duration # <<>> THEN args.duration ELSE <<DefaultDuration>>
    /\ CliRead("execute_relay_commands",
               IF Given(args.on) \/ Given(args.off) \/ Given(args.toggle)
               THEN "fold_write" ELSE AfterCommands)
    /\ cur' = IF pc' = "exited" THEN cur ELSE fold(args, dev)
    /\ UNCHANGED <<envVars, dev, handle, devices, device, pulseCur, guiVars>>

\* execute_relay_commands: set_relay_state(handle, current_state)
ExecWrite ==
    /\ mode = "cli" /\ pc = "fold_write"
    /\ CliWrite("fold", cur, AfterCommands)
    /\ UNCHANGED <<envVars, handle, devices, device, cur, pulseCur, duration, guiVars>>

\* variant: pulse_relays carrying on with byte 0 when its read raises
PulseRead_continuing_on_fault ==
    /\ mode = "cli" /\ pc = "pulse_read"
    /\ \E o \in ReadOutcomes :
         /\ pc' = "pulse_on"
         /\ log' = Append(log, Ev("read", "pulse_relays", IF o = "ok" THEN dev ELSE 0, o))
         /\ pulseCur' = (IF o = "ok" THEN dev ELSE 0)
         /\ UNCHANGED <<exitCode, drvOpen>>
    /\ UNCHANGED <<envVars, dev, handle, devices, device, cur, duration, guiVars>>

\* pulse_relays: current_state = get_relay_state(handle)
PulseRead ==
    /\ mode = "cli" /\ pc = "pulse_read"
    /\ CliRead("pulse_relays", "pulse_on")
    /\ pulseCur' = IF pc' = "exited" THEN pulseCur ELSE dev
    /\ UNCHANGED <<envVars, dev, handle, devices, device, cur, duration, guiVars>>

\* new_state = current_state | relay_mask
pulse_on_state(current_state, relay_list) ==
    BitOr(current_state, relays_to_mask(relay_list))

\* pulse_relays: set_relay_state(handle, new_state)
PulseOn ==
    /\ mode = "cli" /\ pc = "pulse_on"
    /\ CliWrite("pulse_on", pulse_on_state(pulseCur, args.momentary), "sleep")
    /\ UNCHANGED <<envVars, handle, devices, device, cur, pulseCur, duration, guiVars>>

\* pulse_relays: time.sleep(duration); a negative duration raises ValueError,
\* Ctrl-C raises KeyboardInterrupt; both leave through the finally clause
PulseSleep ==
    /\ mode = "cli" /\ pc = "sleep"
    /\ \/ /\ duration[1] >= 0
          /\ pc' = "pulse_restore"
          /\ UNCHANGED <<exitCode, log, drvOpen>>
       \/ /\ duration[1] < 0
          /\ ExitClosing(GENERAL_ERROR, log)
       \/ /\ duration[1] > 0
          /\ ExitClosing(SUCCESS, Append(log, Ev("interrupt", "sleep", 0, "ok")))
    /\ UNCHANGED <<envVars, dev, handle, devices, device, cur, pulseCur, duration,
                   guiVars>>

\* variant: pulse_relays restoring to all-off instead of the byte read
restore_state_zero(current_state) == 0

\* the byte pulse_relays writes back
restore_state(current_state) == current_state

\* pulse_relays: set_relay_state(handle, current_state)
PulseRestore ==
    /\ mode = "cli" /\ pc = "pulse_restore"
    /\ CliWrite("pulse_restore", restore_state(pulseCur), "finish")
    /\ UNCHANGED <<envVars, handle, devices, device, cur, pulseCur, duration, guiVars>>

\* main_cli: sys.exit(ExitCode.SUCCESS), through the finally clause
CliFinish ==
    /\ mode = "cli" /\ pc = "finish"
    /\ ExitClosing(SUCCESS, log)
    /\ UNCHANGED <<envVars, dev, handle, devices, device, cur, pulseCur, duration,
                   guiVars>>

(***************************************************************************)
(* RelayControlFrame: one action per event handler                         *)
(***************************************************************************)
\* variant: disconnect() closing the handle but keeping the session state
GuiDisconnect_keeping_session(lg) ==
    /\ log' = (IF handle # "None"
               THEN Append(lg, Ev("close", "disconnect_device", 0, "ok")) ELSE lg)
    /\ drvOpen' = (IF handle # "None" THEN drvOpen - 1 ELSE drvOpen)
    /\ handle' = "None"
    /\ UNCHANGED <<is_connected, ui>>

\* RelayControlFrame.disconnect(), given the driver calls made before it
GuiDisconnect(lg) ==
    /\ log' = (IF handle # "None"
               THEN Append(lg, Ev("close", "disconnect_device", 0, "ok")) ELSE lg)
    /\ drvOpen' = (IF handle # "None" THEN drvOpen - 1 ELSE drvOpen)
    /\ handle' = "None"
    /\ is_connected' = FALSE
    /\ ui' = UiDisconnected

\* the except clause of the relay handlers: a message box, and disconnect()
\* when the exception is a DeviceDisconnectedError
GuiCommandFailed(exc, lg) ==
    IF exc = "DeviceDisconnected"
    THEN GuiDisconnect(lg)
    ELSE log' = lg /\ UNCHANGED <<drvOpen, handle, is_connected, ui>>

\* on_refresh
GuiRefresh ==
    /\ mode = "gui"
    /\ ui.refresh_enabled
    /\ IF is_connected
       THEN log' = <<>> /\ UNCHANGED devices
       ELSE \E o \in EnumOutcomes :
              /\ devices' = list_devices(o)
              /\ log' = <<Ev("enumerate", "list_devices", 0, o)>>
    /\ UNCHANGED <<envVars, cliVars, dev, drvOpen, handle, guiVars>>

\* on_connect while is_connected: disconnect()
GuiClickDisconnect ==
    /\ mode = "gui"
    /\ is_connected
    /\ GuiDisconnect(<<>>)
    /\ UNCHANGED <<envVars, cliVars, dev, devices, relay_states>>

\* on_connect while not is_connected: connect()
GuiClickConnect ==
    /\ mode = "gui"
    /\ ~is_connected
    /\ IF devices = <<>>
       THEN log' = <<>> /\ UNCHANGED <<drvOpen, handle, is_connected, relay_states, ui>>
       ELSE
       \/ \* openEx raises (it cannot succeed on a board that is still open)
          \E f \in ConnectFaults :
            /\ f = "ACCESS_DENIED" \/ drvOpen = 0
            /\ log' = <<Ev("open", "connect_device", 0, f)>>
            /\ UNCHANGED <<drvOpen, handle, is_connected, relay_states, ui>>
       \/ \* openEx succeeds, setBaudRate or setBitMode raises
          \E f \in ConnectFaults :
            /\ drvOpen = 0
            /\ drvOpen' = drvOpen + 1
            /\ log' = <<Ev("open", "connect_device", 0, "ok"),
                        Ev("config", "connect_device", 0, f)>>
            /\ UNCHANGED <<handle, is_connected, relay_states, ui>>
       \/ \* connect_device returns, the initial get_relay_state raises
          /\ drvOpen = 0
          /\ drvOpen' = drvOpen + 1
          /\ handle' = "h"
          /\ is_connected' = TRUE
          /\ log' = <<Ev("open", "connect_device", 0, "ok"),
                      Ev("read", "connect", 0, "FAULT")>>
          /\ UNCHANGED <<relay_states, ui>>
       \/ \* connect_device and the initial get_relay_state return
          /\ drvOpen = 0
          /\ drvOpen' = drvOpen + 1
          /\ handle' = "h"
          /\ is_connected' = TRUE
          /\ relay_states' = [i \in 0..(NumRelays - 1) |-> Bit(dev, i) = 1]
          /\ ui' = UiConnected
          /\ log' = <<Ev("open", "connect_device", 0, "ok"),
                      Ev("read", "connect", dev, "ok")>>
    /\ UNCHANGED <<envVars, cliVars, dev, devices>>

\* the body shared by on_relay_on, on_relay_off and on_relay_toggle:
\* read, compute new_state, write, record the relay's new state
GuiRelayHandler(by, relay_num, new_state, shown) ==
    /\ mode = "gui"
    /\ ui.controls_enabled
    /\ IF ~is_connected
       THEN log' = <<>> /\ UNCHANGED <<dev, drvOpen, handle, is_connected, relay_states, ui>>
       ELSE
       \/ \* get_relay_state raises
          /\ GuiCommandFailed(get_relay_state_raises("FAULT"),
                              <<EvR("read", by, relay_num, 0, "FAULT")>>)
          /\ UNCHANGED <<dev, relay_states>>
       \/ \E o \in WriteOutcomes :
            LET lg == <<EvR("read", by, relay_num, dev, "ok"),
                        EvR("write", by, relay_num, new_state, o)>> IN
            IF o = "ok"
            THEN /\ dev' = new_state
                 /\ relay_states' = [relay_states EXCEPT ![relay_num - 1] = shown]
                 /\ log' = lg
                 /\ UNCHANGED <<drvOpen, handle, is_connected, ui>>
            ELSE /\ GuiCommandFailed(set_relay_state_raises(o), lg)
                 /\ UNCHANGED <<dev, relay_states>>
    /\ UNCHANGED <<envVars, cliVars, devices>>

\* new_state = current_state | (1 << (relay_num - 1))
on_relay_on_state(current_state, relay_num) ==
    BitOr(current_state, RelayBit(relay_num))

\* new_state = current_state & ~(1 << (relay_num - 1))
on_relay_off_state(current_state, relay_num) ==
    BitAndNot(current_state, RelayBit(relay_num))

\* variant: on_relay_toggle setting the relay's bit instead of flipping it
on_relay_toggle_state_setting(current_state, relay_num) ==
    BitOr(current_state, RelayBit(relay_num))

\* new_state = current_state ^ (1 << (relay_num - 1))
on_relay_toggle_state(current_state, relay_num) ==
    BitXor(current_state, RelayBit(relay_num))

on_relay_on(relay_num) ==
    GuiRelayHandler("on_relay_on", relay_num, on_relay_on_state(dev, relay_num), TRUE)

on_relay_off(relay_num) ==
    GuiRelayHandler("on_relay_off", relay_num, on_relay_off_state(dev, relay_num), FALSE)

on_relay_toggle(relay_num) ==
    GuiRelayHandler("on_relay_toggle", relay_num, on_relay_toggle_state(dev, relay_num),
                    ~relay_states[relay_num - 1])

\* on_all_on (relay_mask = 0x0F) and on_all_off (relay_mask = 0x00)
GuiAllHandler(by, relay_mask, shown) ==
    /\ mode = "gui"
    /\ ui.controls_enabled
    /\ IF ~is_connected
       THEN log' = <<>> /\ UNCHANGED <<dev, drvOpen, handle, is_connected, relay_states, ui>>
       ELSE \E o \in WriteOutcomes :
            LET lg == <<Ev("write", by, relay_mask, o)>> IN
            IF o = "ok"
            THEN /\ dev' = relay_mask
                 /\ relay_states' = [i \in 0..(NumRelays - 1) |-> shown]
                 /\ log' = lg
                 /\ UNCHANGED <<drvOpen, handle, is_connected, ui>>
            ELSE /\ GuiCommandFailed(set_relay_state_raises(o), lg)
                 /\ UNCHANGED <<dev, relay_states>>
    /\ UNCHANGED <<envVars, cliVars, devices>>

on_all_on == GuiAllHandler("on_all_on", 2^NumRelays - 1, TRUE)

on_all_off == GuiAllHandler("on_all_off", 0, FALSE)

GuiRelayOn == \E r \in 1..NumRelays : on_relay_on(r)
GuiRelayOff == \E r \in 1..NumRelays : on_relay_off(r)
GuiRelayToggle == \E r \in 1..NumRelays : on_relay_toggle(r)

Next ==
    \/ CliListDevices
    \/ CliValidate
    \/ CliEnumerate
    \/ CliSelect
    \/ CliPrompt
    \/ CliConnect
    \/ ExecState
    \/ ExecRead
    \/ ExecWrite
    \/ PulseRead
    \/ PulseOn
    \/ PulseSleep
    \/ PulseRestore
    \/ CliFinish
    \/ GuiRefresh
    \/ GuiClickConnect
    \/ GuiClickDisconnect
    \/ GuiRelayOn
    \/ GuiRelayOff
    \/ GuiRelayToggle
    \/ on_all_on
    \/ on_all_off

Spec == Init /\ [][Next]_vars

(***************************************************************************)
(* Vocabulary of the properties                                            *)
(***************************************************************************)
\* positions of the bits set in a byte
SetBits(n) == {i \in 0..(ByteBits - 1) : Bit(n, i) = 1}
\* bit positions of the relays named in a list: relay r is bit r - 1
BitsOf(relay_list) == {r - 1 : r \in Elems(relay_list)}

Cli == mode = "cli"
Exited == pc = "exited"

\* some relay number of some flag is outside 1..4
OutOfRange(a) ==
    \E f \in RelayFlags : \E i \in DOMAIN a[f] : a[f][i] < 1 \/ a[f][i] > NumRelays
\* --state together with --on, --off or --toggle
StateConflict(a) == a.state # <<>> /\ (a.on # <<>> \/ a.off # <<>> \/ a.toggle # <<>>)
\* a relay named by --on and by --off
OnOffConflict(a) == Elems(a.on) \cap Elems(a.off) # {}
\* --duration without --momentary
LoneDuration(a) == a.duration # <<>> /\ a.momentary = <<>>
\* --momentary without --duration
LoneMomentary(a) == a.duration = <<>> /\ a.momentary # <<>>
\* a relay named twice by --off
OffTwice(a) == \E i, j \in DOMAIN a.off : i # j /\ a.off[i] = a.off[j]

\* driver calls that touch the board or the bus
NoDeviceIO == log = <<>> /\ drvOpen = 0 /\ handle = "None"

LogBy(site) == SelectSeq(log, LAMBDA e : e.by = site)
Writes == SelectSeq(log, LAMBDA e : e.op = "write")
PulseWrites == SelectSeq(log, LAMBDA e : e.op = "write" /\ e.by \in {"pulse_on", "pulse_restore"})
CommandWrites == SelectSeq(log, LAMBDA e : e.op = "write" /\ e.by \in {"state", "fold"})
PulseReads == SelectSeq(log, LAMBDA e : e.op = "read" /\ e.by = "pulse_relays")
ExecReads == SelectSeq(log, LAMBDA e : e.op = "read" /\ e.by = "execute_relay_commands")
Interrupted == \E k \in DOMAIN log : log[k].op = "interrupt"
\* position in the log of the first call made from a site, 0 when there is none
FirstAt(site) ==
    IF \E k \in DOMAIN log : log[k].by = site
    THEN CHOOSE k \in DOMAIN log : log[k].by = site /\ \A j \in 1..(k - 1) : log[j].by # site
    ELSE 0

(***************************************************************************)
(* C1: a command line (without --list-devices) with a relay number outside *)
(* 1..4 or with conflicting flags fails validation before any device I/O:  *)
(* nothing is enumerated, opened, read or written, and the run ends with   *)
(* exit 10 (InvalidRelayNumber) or exit 11 (ConflictingFlags).             *)
(***************************************************************************)
C1_ValidationBeforeIO ==
    (Cli /\ ~args.list_devices
         /\ (OutOfRange(args) \/ StateConflict(args) \/ OnOffConflict(args)
             \/ LoneDuration(args)))
    => /\ NoDeviceIO
       /\ pc \in {"start", "exited"}
       /\ Exited => exitCode = (IF OutOfRange(args) THEN INVALID_RELAY_NUMBER
                                ELSE CONFLICTING_FLAGS)

C1_Witness ==
    /\ Cli /\ Exited /\ ~args.list_devices
    /\ OutOfRange(args) /\ StateConflict(args)
    /\ exitCode = INVALID_RELAY_NUMBER
    /\ NoDeviceIO

(***************************************************************************)
(* C2: pulse restoration.  When the read and both writes of pulse_relays   *)
(* succeed there are exactly two pulse writes, in order; between them the  *)
(* board holds C OR mask_of(R), after them it holds C again.  A duration   *)
(* of 0 is not special: the restore write is still made.                   *)
(***************************************************************************)
C2_PulseRestoration ==
    Cli =>
    /\ Len(PulseWrites) <= 2
    /\ Len(PulseWrites) >= 1 =>
         /\ Len(PulseReads) = 1 /\ PulseReads[1].res = "ok"
         /\ PulseWrites[1].by = "pulse_on"
         /\ SetBits(PulseWrites[1].val) =
                SetBits(PulseReads[1].val) \cup BitsOf(args.momentary)
         /\ PulseWrites[1].val \in Byte
    /\ (Len(PulseWrites) = 1 /\ PulseWrites[1].res = "ok") =>
         /\ dev = PulseWrites[1].val
         \* the run does not end here unless sleep() raised
         /\ Exited => duration[1] < 0 \/ Interrupted
    /\ Len(PulseWrites) = 2 =>
         /\ PulseWrites[1].res = "ok"
         /\ PulseWrites[2].by = "pulse_restore"
         /\ PulseWrites[2].val = PulseReads[1].val
         /\ PulseWrites[2].res = "ok" => dev = PulseReads[1].val

C2_Witness ==
    /\ Cli /\ Exited /\ exitCode = SUCCESS
    /\ Len(PulseWrites) = 2 /\ PulseWrites[2].res = "ok"
    /\ duration = <<0>>
    /\ Cardinality(Elems(args.momentary)) = 2
    /\ PulseReads[1].val = 165
    /\ PulseWrites[1].val # 165
    /\ dev = 165

(***************************************************************************)
(* C3: SetAbsolute totality.  The byte --state R writes has exactly the    *)
(* bits r - 1 of the relays in R set, whatever the board held before: all  *)
(* other bits, the reserved bits 4-7 included, are 0.                      *)
(***************************************************************************)
C3_SetAbsolute ==
    Cli =>
    \A k \in DOMAIN log :
        (log[k].op = "write" /\ log[k].by = "state") =>
            /\ SetBits(log[k].val) = BitsOf(args.state)
            /\ log[k].val < 2^NumRelays
            \* no read precedes it: the prior byte is never consulted
            /\ \A j \in 1..(k - 1) : log[j].op # "read"
            /\ (log[k].res = "ok" /\ k = Len(log)) => dev = log[k].val

C3_Witness ==
    /\ Cli /\ pc = "finish"
    /\ Cardinality(Elems(args.state)) = 2
    /\ Len(CommandWrites) = 1 /\ CommandWrites[1].by = "state"
    /\ CommandWrites[1].res = "ok"
    /\ dev = CommandWrites[1].val

(***************************************************************************)
(* C4: partial updates leave the unselected bits unchanged.  The byte      *)
(* written by --on/--off/--toggle, and by the GUI's per relay ON, OFF and  *)
(* TOGGLE buttons, equals the byte read in every bit position that is not  *)
(* r - 1 for a selected relay r; bits 4-7 are those of the byte read and   *)
(* the byte written is within 0..255.                                      *)
(***************************************************************************)
GuiRelaySites == {"on_relay_on", "on_relay_off", "on_relay_toggle"}

C4_PartialUpdateFrame ==
    \A k \in 1..(Len(log) - 1) :
        LET rd == log[k]
            wr == log[k + 1]
        IN  (rd.op = "read" /\ rd.res = "ok" /\ wr.op = "write") =>
            /\ (rd.by = "execute_relay_commands" /\ wr.by = "fold") =>
                 /\ wr.val \in Byte
                 /\ \A i \in 0..(ByteBits - 1) :
                      i \notin (BitsOf(args.on) \cup BitsOf(args.off) \cup BitsOf(args.toggle))
                      => Bit(wr.val, i) = Bit(rd.val, i)
            /\ (wr.by \in GuiRelaySites) =>
                 /\ wr.val \in Byte
                 /\ \A i \in 0..(ByteBits - 1) :
                      i # wr.relay - 1 => Bit(wr.val, i) = Bit(rd.val, i)

C4_Witness ==
    /\ Cli /\ Exited /\ exitCode = SUCCESS
    /\ args.on # <<>> /\ args.off # <<>> /\ args.toggle # <<>>
    /\ Len(ExecReads) = 1 /\ ExecReads[1].val = 165
    /\ Len(CommandWrites) = 1 /\ CommandWrites[1].by = "fold"
    /\ CommandWrites[1].val # 165
    /\ CommandWrites[1].val \div (2^NumRelays) = 10
    /\ dev = CommandWrites[1].val

\* bit i of ((c | on) & ~off) ^ toggle, worked out relay by relay
FoldedBit(a, c, i) ==
    LET b1 == IF i \in BitsOf(a.on) THEN 1 ELSE Bit(c, i)
        b2 == IF i \in BitsOf(a.off) THEN 0 ELSE b1
    IN  IF i \in BitsOf(a.toggle) THEN 1 - b2 ELSE b2

(***************************************************************************)
(* C5: command ordering.  Without --state and with any of --on A, --off F, *)
(* --toggle T, once byte C has been read exactly one non-pulse write is    *)
(* issued, of ((C OR mask(A)) AND NOT mask(F)) XOR mask(T); a --momentary  *)
(* of the same command line is pulsed after that write and restores the    *)
(* byte that write left on the board.                                      *)
(***************************************************************************)
C5_CommandOrdering ==
    (Cli /\ args.state = <<>>
         /\ (args.on # <<>> \/ args.off # <<>> \/ args.toggle # <<>>))
    => /\ Len(CommandWrites) <= 1
       /\ \A k \in DOMAIN CommandWrites : CommandWrites[k].by = "fold"
       \* the write is issued as soon as C has been read
       /\ (Len(ExecReads) = 1 /\ ExecReads[1].res = "ok" /\ pc # "fold_write")
            => Len(CommandWrites) = 1
       /\ Len(CommandWrites) = 1 =>
            /\ Len(ExecReads) = 1 /\ ExecReads[1].res = "ok"
            /\ CommandWrites[1].val \in Byte
            /\ \A i \in 0..(ByteBits - 1) :
                 Bit(CommandWrites[1].val, i) = FoldedBit(args, ExecReads[1].val, i)
       \* the pulse comes after the write, and only after a successful one
       /\ FirstAt("pulse_relays") > 0 =>
            /\ Len(CommandWrites) = 1 /\ CommandWrites[1].res = "ok"
            /\ FirstAt("fold") < FirstAt("pulse_relays")
            /\ PulseReads[1].res = "ok" => PulseReads[1].val = CommandWrites[1].val
       /\ \A k \in DOMAIN PulseWrites :
            /\ FirstAt("fold") < FirstAt(PulseWrites[k].by)
            /\ PulseWrites[k].by = "pulse_restore"
                 => PulseWrites[k].val = CommandWrites[1].val
       \* a run with --momentary that made the write and ends in success has pulsed
       /\ (Exited /\ exitCode = SUCCESS /\ args.momentary # <<>> /\ ~Interrupted
                   /\ Len(CommandWrites) = 1)
            => Len(PulseWrites) = 2

C5_Witness ==
    /\ Cli /\ Exited /\ exitCode = SUCCESS
    /\ args.on # <<>> /\ args.toggle # <<>> /\ args.momentary # <<>>
    /\ Elems(args.on) \cap Elems(args.toggle) # {}
    /\ Len(CommandWrites) = 1
    /\ Len(PulseWrites) = 2
    /\ PulseWrites[2].val = CommandWrites[1].val
    /\ PulseWrites[1].val # CommandWrites[1].val
    /\ ExecReads[1].val # CommandWrites[1].val

(***************************************************************************)
(* C6 as stated: in a command line carrying --state no other intent (on,   *)
(* off, toggle or momentary) reaches the board; the only read or write is  *)
(* the single absolute-set write.                                          *)
(***************************************************************************)
C6_StateShortCircuitsAll ==
    (Cli /\ args.state # <<>>) =>
        /\ Len(Writes) <= 1
        /\ \A k \in DOMAIN log :
             log[k].op \in {"read", "write"} => log[k].by = "state"

(***************************************************************************)
(* C6 amended: in a command line carrying --state no on, off or toggle     *)
(* intent reaches the board (validation accepts none beside --state); the  *)
(* absolute-set write is the only non-pulse write and the first access.    *)
(* --momentary is not short-circuited: it is pulsed after a successful     *)
(* absolute-set write.                                                     *)
(***************************************************************************)
C6_StateShortCircuitsCommands ==
    (Cli /\ args.state # <<>>) =>
        /\ pc \notin {"start", "exited"}
             => args.on = <<>> /\ args.off = <<>> /\ args.toggle = <<>>
        /\ ExecReads = <<>>
        /\ Len(CommandWrites) <= 1
        /\ \A k \in DOMAIN CommandWrites : CommandWrites[k].by = "state"
        /\ \A k \in DOMAIN log :
             log[k].op \in {"read", "write"} => FirstAt("state") \in 1..k
        /\ FirstAt("pulse_relays") > 0 => CommandWrites[1].res = "ok"
        /\ (Exited /\ exitCode = SUCCESS /\ args.momentary # <<>> /\ ~Interrupted
                   /\ Len(CommandWrites) = 1)
             => Len(PulseWrites) = 2

C6_Witness ==
    /\ Cli /\ Exited /\ exitCode = SUCCESS
    /\ args.state # <<>> /\ args.momentary # <<>>
    /\ Len(Writes) = 3
    /\ Writes[1].by = "state" /\ Writes[2].by = "pulse_on"
    /\ Writes[3].by = "pulse_restore"
    /\ Writes[2].val # Writes[1].val

(***************************************************************************)
(* C7 as stated: a command line that combines --state with --on, --off or  *)
(* --toggle, or names a relay in both --on and --off, fails with exit 11   *)
(* (ConflictingFlags) and the board is never opened or written.            *)
(***************************************************************************)
C7_ConflictsExit11 ==
    (Cli /\ (StateConflict(args) \/ OnOffConflict(args))) =>
        /\ drvOpen = 0 /\ handle = "None"
        /\ \A k \in DOMAIN log : log[k].op \notin {"open", "write"}
        /\ Exited => exitCode = CONFLICTING_FLAGS

(***************************************************************************)
(* C7 amended: such a command line never opens or writes the board.        *)
(* Without --list-devices it fails validation before any device I/O, with  *)
(* exit 11 (ConflictingFlags) when every relay number is within 1..4 and   *)
(* with exit 10 (InvalidRelayNumber) otherwise, the range check coming     *)
(* first.  With --list-devices the relay flags are not validated: the      *)
(* devices are listed and the run exits 0.                                 *)
(***************************************************************************)
C7_ConflictsRejected ==
    (Cli /\ (StateConflict(args) \/ OnOffConflict(args))) =>
        /\ drvOpen = 0 /\ handle = "None"
        /\ \A k \in DOMAIN log : log[k].op \notin {"open", "write"}
        /\ pc \in {"start", "exited"}
        /\ ~args.list_devices =>
             /\ log = <<>>
             /\ Exited => exitCode = (IF OutOfRange(args) THEN INVALID_RELAY_NUMBER
                                      ELSE CONFLICTING_FLAGS)
        /\ args.list_devices => (Exited => exitCode = SUCCESS)

C7_Witness ==
    /\ Cli /\ Exited /\ ~args.list_devices
    /\ OnOffConflict(args) /\ ~StateConflict(args) /\ ~OutOfRange(args)
    /\ args.toggle # <<>>
    /\ exitCode = CONFLICTING_FLAGS
    /\ log = <<>>

(***************************************************************************)
(* C8 as stated, for command lines without --list-devices whose relay      *)
(* numbers are all within 1..4: giving one of --duration / --momentary     *)
(* without the other fails with ConflictingFlags before any device I/O.    *)
(***************************************************************************)
C8_DurationMomentaryPaired ==
    (Cli /\ ~args.list_devices /\ ~OutOfRange(args)
         /\ (LoneDuration(args) \/ LoneMomentary(args)))
    => /\ NoDeviceIO
       /\ Exited => exitCode = CONFLICTING_FLAGS

(***************************************************************************)
(* C8 amended: --duration without --momentary fails validation before any  *)
(* device I/O (exit 11, or exit 10 when a relay number is out of range).   *)
(* --momentary without --duration is accepted: unless the command line is  *)
(* rejected for another reason it is not a validation error, and the pulse *)
(* lasts the default duration of the settings (0.5 s).                     *)
(***************************************************************************)
C8_DurationNeedsMomentary ==
    /\ (Cli /\ ~args.list_devices /\ LoneDuration(args)) =>
         /\ NoDeviceIO
         /\ pc \in {"start", "exited"}
         /\ Exited => exitCode = (IF OutOfRange(args) THEN INVALID_RELAY_NUMBER
                                  ELSE CONFLICTING_FLAGS)
    /\ (Cli /\ ~args.list_devices /\ LoneMomentary(args) /\ ~OutOfRange(args)
            /\ ~StateConflict(args) /\ ~OnOffConflict(args) /\ ~OffTwice(args)) =>
         /\ pc # "start" => exitCode \notin {INVALID_RELAY_NUMBER, CONFLICTING_FLAGS}
         /\ Exited => log # <<>>
         /\ (pc \in {"pulse_read", "pulse_on", "sleep", "pulse_restore"}
             \/ PulseWrites # <<>>) => duration = <<DefaultDuration>>

C8_Witness ==
    /\ Cli /\ Exited /\ exitCode = SUCCESS
    /\ LoneMomentary(args)
    /\ Len(PulseWrites) = 2 /\ PulseWrites[2].res = "ok"
    /\ duration = <<DefaultDuration>>

(***************************************************************************)
(* C9: pulse partial failure.  When the pulse's first write succeeds and   *)
(* its restore write fails, the run ends with a non-success exit code, the *)
(* restore write was attempted exactly once and nothing is written after   *)
(* it, and the board still holds C OR mask_of(R).                          *)
(***************************************************************************)
C9_RestoreFailureReported ==
    (Cli /\ Len(PulseWrites) >= 2 /\ PulseWrites[2].res # "ok") =>
        /\ Exited
        /\ exitCode \in {COMMAND_EXECUTION_FAILED, DEVICE_DISCONNECTED}
        /\ Len(PulseWrites) = 2
        /\ PulseWrites[1].by = "pulse_on" /\ PulseWrites[1].res = "ok"
        /\ PulseWrites[2].by = "pulse_restore"
        /\ Writes[Len(Writes)] = PulseWrites[2]
        /\ dev = PulseWrites[1].val
        /\ SetBits(dev) = SetBits(PulseReads[1].val) \cup BitsOf(args.momentary)

C9_Witness ==
    /\ Cli /\ Exited /\ exitCode = DEVICE_DISCONNECTED
    /\ Len(PulseWrites) = 2
    /\ PulseWrites[1].res = "ok" /\ PulseWrites[2].res = "DEVICE_NOT_FOUND"
    /\ dev # PulseReads[1].val
    /\ log[Len(log)].op = "close"

\* the exit code of a run whose first pulse write fails with driver fault f
WriteFailureCode(f) ==
    IF f = "DEVICE_NOT_FOUND" THEN DEVICE_DISCONNECTED ELSE COMMAND_EXECUTION_FAILED

(***************************************************************************)
(* C10 as stated: a failed restore write is reported distinctly from a     *)
(* failed first write: for the same driver fault the exit code of the run  *)
(* differs from the one a failure of the first pulse write gives.          *)
(***************************************************************************)
C10_RestoreFailureDistinct ==
    (Cli /\ Exited /\ Len(PulseWrites) = 2 /\ PulseWrites[2].res # "ok")
    => exitCode # WriteFailureCode(PulseWrites[2].res)

(***************************************************************************)
(* C10 amended: both pulse writes go through set_relay_state, so a failed  *)
(* restore write is reported exactly as a failed first write: for the same *)
(* driver fault the run ends with the same exit code (7 for "device not    *)
(* found", else 5); the exit code does not tell which write failed.        *)
(***************************************************************************)
C10_WriteFailuresReportedAlike ==
    Cli =>
    \A k \in DOMAIN PulseWrites :
        PulseWrites[k].res # "ok" =>
            /\ Exited
            /\ k = Len(PulseWrites)
            /\ exitCode = WriteFailureCode(PulseWrites[k].res)

C10_Witness ==
    /\ Cli /\ Exited /\ exitCode = COMMAND_EXECUTION_FAILED
    /\ Len(PulseWrites) = 2
    /\ PulseWrites[1].res = "ok" /\ PulseWrites[2].res = "IO_ERROR"

\* the enumeration succeeded and found no board
EnumeratedNone ==
    /\ attached = <<>>
    /\ \E k \in DOMAIN log : log[k].op = "enumerate" /\ log[k].res = "ok"

(***************************************************************************)
(* C11: whenever device enumeration yields zero devices the CLI exits with *)
(* the no-devices code (2), for --list-devices and for any relay command,  *)
(* which then neither prompts for a device nor opens one.                  *)
(***************************************************************************)
C11_NoDevicesExitCode ==
    (Cli /\ EnumeratedNone) =>
        /\ pc # "prompt"
        /\ drvOpen = 0
        /\ Exited => exitCode = NO_DEVICES_FOUND

(***************************************************************************)
(* C12: scoped acquisition in CLI mode.  Every handle the driver opened    *)
(* during an invocation is closed before the process exits, on every exit  *)
(* path: success, a failed read or write, an interrupt, and a failure of   *)
(* the device configuration after the open itself succeeded.               *)
(***************************************************************************)
C12_HandlesClosedAtExit ==
    (Cli /\ Exited) => drvOpen = 0

\* the last GUI handler ended on a DeviceDisconnectedError: a failed read, or
\* a write the driver answered with "device not found"
GuiLostDevice ==
    /\ mode = "gui"
    /\ \E k \in DOMAIN log :
         \/ log[k].op = "read" /\ log[k].res # "ok"
         \/ log[k].op = "write" /\ log[k].res = "DEVICE_NOT_FOUND"

(***************************************************************************)
(* C13: GUI disconnect handling.  Whenever a GUI operation on a connected  *)
(* session (per-relay ON/OFF/TOGGLE, ALL ON/OFF, the initial state read    *)
(* right after connect) fails with DeviceDisconnected, the handler ends    *)
(* with the session disconnected: is_connected false, the handle released, *)
(* the indicators showing disconnected.                                    *)
(***************************************************************************)
C13_GuiDisconnectOnLoss ==
    GuiLostDevice =>
        /\ ~is_connected
        /\ handle = "None"
        /\ drvOpen = 0
        /\ ui = UiDisconnected

\* the driver calls of one step: all of the handler's in GUI mode, the ones
\* appended by the step in CLI mode
NewEvents == IF mode = "cli" THEN SubSeq(log', Len(log) + 1, Len(log')) ELSE log'

(***************************************************************************)
(* C14: no I/O while unopened.  In the CLI flow and in any sequence of GUI *)
(* events a device read or write is only issued on a handle that has been  *)
(* opened and not yet closed: either the program holds an open handle when *)
(* the step starts and has not closed it before the call, or the same step *)
(* opened it successfully before the call.                                 *)
(***************************************************************************)
C14_NoIOWhileUnopened ==
    [][\A k \in DOMAIN NewEvents :
         NewEvents[k].op \in {"read", "write"} =>
            /\ \A j \in 1..(k - 1) : NewEvents[j].op # "close"
            /\ \/ handle = "h" /\ drvOpen > 0
               \/ \E j \in 1..(k - 1) :
                    /\ NewEvents[j].op = "open" /\ NewEvents[j].res = "ok"
                    /\ handle' = "h"]_vars

C14_Witness ==
    /\ mode = "gui" /\ ~is_connected /\ handle = "None" /\ drvOpen = 0
    /\ Len(log) = 3
    /\ log[1].op = "read" /\ log[1].res = "ok"
    /\ log[2].op = "write" /\ log[2].res = "DEVICE_NOT_FOUND"
    /\ log[3].op = "close"

(***************************************************************************)
(* C15: no automatic retry.  Once a device read or   *)
(* write fails, no further read or write is issued in that invocation (or  *)
(* GUI handler), only the close; one CLI invocation issues at most one     *)
(* non-pulse write and at most two pulse writes.                           *)
(***************************************************************************)
C15_NoRetry ==
    /\ \A k \in DOMAIN log :
         (log[k].op \in {"read", "write"} /\ log[k].res # "ok") =>
            \A j \in (k + 1)..Len(log) : log[j].op = "close"
    /\ Cli => Len(CommandWrites) <= 1 /\ Len(PulseWrites) <= 2

C15_Witness ==
    /\ Cli /\ Exited
    /\ args.on # <<>> /\ args.momentary # <<>>
    /\ Len(ExecReads) = 1 /\ ExecReads[1].res # "ok"
    /\ Writes = <<>> /\ PulseReads = <<>>
    /\ log[Len(log)].op = "close"

(***************************************************************************)
(* C16: typed I/O errors.  Every driver fault during a read surfaces as    *)
(* DeviceDisconnected (exit 7); every driver fault during a write surfaces *)
(* as DeviceDisconnected (7, for "device not found") or as                 *)
(* CommandExecutionFailed (5) and nothing else; a failed call leaves the   *)
(* device byte unchanged.  In the GUI the relay handlers end the session   *)
(* exactly when the error is DeviceDisconnected.                           *)
(***************************************************************************)
C16_TypedIOErrors ==
    [][\A k \in DOMAIN NewEvents :
         LET e == NewEvents[k] IN
         /\ (e.op = "read" /\ e.res # "ok") =>
              /\ dev' = dev
              /\ Cli => pc' = "exited" /\ exitCode' = DEVICE_DISCONNECTED
              /\ (mode = "gui" /\ e.by # "connect") => ~is_connected'
         /\ (e.op = "write" /\ e.res # "ok") =>
              /\ dev' = dev
              /\ Cli => /\ pc' = "exited"
                        /\ exitCode' \in {DEVICE_DISCONNECTED, COMMAND_EXECUTION_FAILED}
                        /\ exitCode' = DEVICE_DISCONNECTED <=> e.res = "DEVICE_NOT_FOUND"
              /\ mode = "gui" => (is_connected' <=> e.res # "DEVICE_NOT_FOUND")]_vars

C16_Witness ==
    /\ Cli /\ Exited /\ exitCode = DEVICE_DISCONNECTED
    /\ Len(PulseReads) = 1 /\ PulseReads[1].res # "ok"
    /\ Len(CommandWrites) = 1 /\ CommandWrites[1].res = "ok"
    /\ dev = CommandWrites[1].val

\* the exit codes of the ten failure categories
FailureCodes ==
    {GENERAL_ERROR, NO_DEVICES_FOUND, DEVICE_NOT_FOUND, CONNECTION_FAILED,
     COMMAND_EXECUTION_FAILED, DEVICE_DISCONNECTED, DEVICE_IN_USE,
     INVALID_RELAY_NUMBER, CONFLICTING_FLAGS, FTDI_DRIVER_ERROR}

\* some driver call of kind op ended with a fault
Failed(op) == \E k \in DOMAIN log : log[k].op = op /\ log[k].res # "ok"

(***************************************************************************)
(* C17: exit codes are a function of the failure category.  The ten        *)
(* categories have ten distinct codes, and a failing CLI invocation exits  *)
(* with the code of the category of the failure that occurred: a driver    *)
(* error during enumeration with the driver-error code 12, an enumeration  *)
(* that finds no device with 2, a failed read with 7, a failed write with  *)
(* 7 or 5, a failed validation with 10 or 11.                              *)
(***************************************************************************)
C17_ExitCodeOfCategory ==
    /\ Cardinality(FailureCodes) = 10
    /\ (Cli /\ Exited) =>
         /\ Failed("enumerate") => exitCode = FTDI_DRIVER_ERROR
         /\ EnumeratedNone => exitCode = NO_DEVICES_FOUND
         /\ Failed("read") => exitCode = DEVICE_DISCONNECTED
         /\ Failed("write") => exitCode \in {DEVICE_DISCONNECTED, COMMAND_EXECUTION_FAILED}
         /\ (log = <<>> /\ OutOfRange(args)) => exitCode = INVALID_RELAY_NUMBER

(***************************************************************************)
(* C18: non-interactive selection terminates.  When neither --device-index *)
(* nor --device-serial is given and the prompt is used, end of input ends  *)
(* the selection as cancelled without another prompt: the run terminates   *)
(* at once and no device is opened, read or written.                       *)
(***************************************************************************)
C18_EofEndsSelection ==
    Cli =>
    \A k \in DOMAIN log :
        (log[k].op = "input" /\ log[k].res = "EOF") =>
            /\ k = Len(log)
            /\ Exited
            /\ args.device_index = <<>> /\ args.device_serial = ""
            /\ drvOpen = 0 /\ handle = "None"
            /\ \A j \in DOMAIN log : log[j].op \notin {"open", "read", "write"}

C18_Witness ==
    /\ Cli /\ Exited
    /\ Len(devices) = 2
    /\ Len(Inputs) = 2
    /\ Inputs[1].res = "text" /\ Inputs[2].res = "EOF"
    /\ log[Len(log)] = Inputs[2]
    /\ drvOpen = 0

(***************************************************************************)
(* C19: mask_of correctness.  For every list of relay numbers drawn from   *)
(* 1..4, in any order and with duplicates, relays_to_mask returns the byte *)
(* whose set bits are exactly the positions r-1 of the distinct relays     *)
(* listed: as many bits as distinct relays, none above bit 3.  Stated of   *)
(* every relay list of the command line, and of the byte --state writes.   *)
(***************************************************************************)
C19_MaskOf ==
    /\ (Cli /\ pc = "start") =>
         \A f \in RelayFlags :
            validate_relay_numbers(args[f]) =>
               LET m == relays_to_mask(args[f]) IN
               /\ SetBits(m) = BitsOf(args[f])
               /\ Cardinality(SetBits(m)) = Cardinality(Elems(args[f]))
               /\ m < 2^NumRelays
    /\ Cli =>
         \A k \in DOMAIN CommandWrites :
            CommandWrites[k].by = "state" =>
               /\ SetBits(CommandWrites[k].val) = BitsOf(args.state)
               /\ Cardinality(SetBits(CommandWrites[k].val)) = Cardinality(Elems(args.state))

C19_Witness ==
    /\ Cli /\ Exited /\ exitCode = SUCCESS
    /\ Len(args.state) = 3 /\ Cardinality(Elems(args.state)) = 2
    /\ args.state[1] > args.state[2]
    /\ Len(CommandWrites) = 1 /\ CommandWrites[1].res = "ok"
    /\ Cardinality(SetBits(dev)) = 2

\* a command line with --toggle and no other relay command
ToggleOnly(a) ==
    /\ a.toggle # <<>>
    /\ a.state = <<>> /\ a.on = <<>> /\ a.off = <<>> /\ a.momentary = <<>>

\* the driver calls of a successful on_relay_toggle(r)
ToggleRun(lg, r) ==
    /\ Len(lg) = 2
    /\ lg[1].op = "read" /\ lg[1].by = "on_relay_toggle" /\ lg[1].relay = r
    /\ lg[1].res = "ok"
    /\ lg[2].op = "write" /\ lg[2].by = "on_relay_toggle" /\ lg[2].res = "ok"

(***************************************************************************)
(* C20: toggle involution.  For every byte B and every relay list R within *)
(* 1..4, two successful consecutive toggles with the same R leave the      *)
(* board at B.  CLI: after a successful --toggle R run that read B, the    *)
(* board holds B with R's bits flipped, and the byte a second --toggle R   *)
(* run folds from it is B.  GUI: a successful TOGGLE of relay r that       *)
(* directly follows a successful TOGGLE of r puts the board back to the    *)
(* byte the first one read.                                                *)
(***************************************************************************)
C20_ToggleInvolution ==
    /\ []((Cli /\ Exited /\ exitCode = SUCCESS /\ ToggleOnly(args)
               /\ Len(CommandWrites) = 1 /\ Len(ExecReads) = 1)
          => /\ dev = fold(args, ExecReads[1].val)
             /\ dev # ExecReads[1].val
             /\ fold(args, dev) = ExecReads[1].val)
    /\ [][\A r \in 1..NumRelays :
            (mode = "gui" /\ ToggleRun(log, r) /\ ToggleRun(log', r)
                          /\ log'[1].val = dev /\ log' # log)
            => dev' = log[1].val]_vars

C20_Witness ==
    /\ Cli /\ Exited /\ exitCode = SUCCESS /\ ToggleOnly(args)
    /\ Len(args.toggle) = 3 /\ Cardinality(Elems(args.toggle)) = 2
    /\ Len(CommandWrites) = 1
    /\ ExecReads[1].val >= 2^NumRelays
    /\ SetBits(dev) # SetBits(ExecReads[1].val)
    /\ fold(args, dev) = ExecReads[1].val

\* the byte the board holds when pulse_relays is entered: the byte --state
\* or the fold wrote, or the byte execute_relay_commands read
PrePulseByte ==
    IF CommandWrites # <<>> THEN CommandWrites[Len(CommandWrites)].val
    ELSE ExecReads[1].val

(***************************************************************************)
(* C21: pulse aborts on early failure.  When the read of pulse_relays      *)
(* fails, pulse_relays issues no write; when its first (turn-on) write     *)
(* fails, no restore write follows.  In both cases the run ends with the   *)
(* error's exit code and the board still holds the byte it held when the   *)
(* pulse began (the byte C the pulse read, when it read one).              *)
(***************************************************************************)
C21_PulseAbortsEarly ==
    Cli =>
    /\ (PulseReads # <<>> /\ PulseReads[1].res # "ok") =>
         /\ Exited /\ exitCode = DEVICE_DISCONNECTED
         /\ Len(PulseReads) = 1
         /\ PulseWrites = <<>>
         /\ dev = PrePulseByte
    /\ (PulseWrites # <<>> /\ PulseWrites[1].res # "ok") =>
         /\ Exited /\ exitCode = WriteFailureCode(PulseWrites[1].res)
         /\ Len(PulseWrites) = 1 /\ PulseWrites[1].by = "pulse_on"
         /\ Writes[Len(Writes)] = PulseWrites[1]
         /\ Len(PulseReads) = 1 /\ PulseReads[1].res = "ok"
         /\ dev = PulseReads[1].val
         /\ dev = PrePulseByte

C21_Witness ==
    /\ Cli /\ Exited /\ exitCode = COMMAND_EXECUTION_FAILED
    /\ Len(ExecReads) = 1
    /\ Len(CommandWrites) = 1 /\ CommandWrites[1].val # ExecReads[1].val
    /\ Len(PulseWrites) = 1 /\ PulseWrites[1].res = "IO_ERROR"
    /\ PulseWrites[1].val # PulseReads[1].val
    /\ dev = PulseReads[1].val
    /\ log[Len(log)].op = "close"

\* the relay indicators agree with the board's byte
DisplayMatchesDevice ==
    \A i \in 0..(NumRelays - 1) : relay_states[i] = (Bit(dev, i) = 1)

(***************************************************************************)
(* C22: GUI display consistency.  After any handler of the window has      *)
(* completed, with any read or write failing, a connected session shows    *)
(* the board: relay_states[i] is bit i of the board's byte for i in 0..3.  *)
(***************************************************************************)
C22_DisplayConsistent ==
    (mode = "gui" /\ is_connected) => DisplayMatchesDevice

(***************************************************************************)
(* C23: GUI session ownership.  After every handler of the window has      *)
(* completed, is_connected is true exactly when self.handle holds an open  *)
(* handle; over any sequence of connect and disconnect clicks, with        *)
(* connects failing at open, at configuration or at the initial read, at   *)
(* most one driver handle is open and every open handle is the one         *)
(* self.handle refers to.                                                  *)
(***************************************************************************)
C23_SessionOwnership ==
    mode = "gui" =>
    /\ is_connected <=> handle # "None"
    /\ drvOpen <= 1
    /\ drvOpen = (IF handle # "None" THEN 1 ELSE 0)

====
